---- MODULE Spec2Model ----
(***************************************************************************)
(* A model of the rtxon ray tracer: the row-parallel Image buffer          *)
(* (src/src/image.rs), the recursive colour estimator (src/src/main.rs),   *)
(* the sphere / scene intersection (src/src/shapes.rs, src/src/main.rs)    *)
(* the materials (src/src/materials.rs) and the rejection samplers         *)
(* (src/src/camera.rs, materials.rs, utils.rs).                            *)
(*                                                                         *)
(* Numbers are exact integers or rationals (num/den); f32 rounding is not  *)
(* modelled.  Inputs of the geometric functions are drawn from grids on    *)
(* which every square root the code takes is exact.                        *)
(***************************************************************************)
EXTENDS Integers, Sequences, FiniteSets, TLC

VARIABLES
    \* ---- Image (image.rs) ----
    width,      \* Image.width
    height,     \* Image.height
    nproc,      \* num_cpus::get()
    entry,      \* how the caller builds the image: "new" or "from_fn"
    pc,         \* position of the calling thread
    rows,       \* Image.rows: row index -> row pointer (a heap block or NULL)
    heap,       \* heap block -> [x -> pixel or Uninit]
    row_layout, \* Image.row_layout
    allocated,  \* the allocator's record: heap block -> the Layout it was allocated with
    freed,      \* the calls of dealloc made, as a sequence of (ptr, layout)
    queue,      \* the pool's job channel
    worker,     \* the pool's threads
    nextRow,    \* position of the dispatch loop of render
    fsel,       \* the pixel function of the current render call
    passes,     \* number of render calls made on this image
    wcount,     \* heap block -> [x -> writes in the current render call]
    writers,    \* heap block -> [x -> tasks that wrote it in the current call]
    nullWrites, \* tasks that wrote through a NULL row pointer
    saved,      \* the ImageBuffer built by the last save, or NoImage
    \* ---- color (main.rs) ----
    maxdepth,   \* argument maxdepth of color
    cstack,     \* call stack of color: one frame per active call
    cpc,        \* "call": the top frame is about to run; "ret": it returned
    cret,       \* the value and the case of the call that returned last
    ncalls,     \* number of calls of color made so far
    nscatter,   \* number of evaluations of Material::scatter so far
    \* ---- pure functions (shapes.rs, materials.rs) ----
    fn,         \* the function applied last, or "none"
    args,       \* its arguments
    res         \* its result

imageVars == <<width, height, nproc, entry, pc, rows, heap, row_layout, allocated,
               freed, queue, worker,
               nextRow, fsel, passes, wcount, writers, nullWrites, saved>>
colorVars == <<maxdepth, cstack, cpc, cret, ncalls, nscatter>>
fnVars    == <<fn, args, res>>
vars      == <<imageVars, colorVars, fnVars>>

(***************************************************************************)
(* Bounds of the model                                                     *)
(***************************************************************************)
MaxWidth  == 2      \* image widths 1..MaxWidth
MaxHeight == 3      \* image heights 1..MaxHeight
MaxProc   == 2      \* pool sizes 1..MaxProc
MaxPasses == 2      \* render calls per image

(***************************************************************************)
(* Image: src/src/image.rs                                                 *)
(***************************************************************************)
NULL == 0           \* the null pointer alloc returns on failure

Xs == 0 .. (width - 1)
Ys == 0 .. (height - 1)
Blocks == 1 .. height
Workers == 1 .. nproc

FSels == {0, 1}
Garbage == {<<0, 0, 0>>, <<255, 255, 255>>}

\* The caller's pixel function f: deterministic in (x, y).
PixelFn(sel, x, y) == <<x, y, sel>>

\* Pixel::channels4 of an Rgb<u8>: the three channels and a filler.
Channels4(p) == <<p[1], p[2], p[3], 255>>

FromChannelsSwapped(a, b, c, d) == <<c, b, a>>
\* Pixel::from_channels of an Rgb<u8>: takes the first three channels.
FromChannels(a, b, c, d) == <<a, b, c>>

\* The closure of save: reads pixel (x, y) through the row pointer.
ReadBack(x, y) ==
    LET ch == Channels4(heap[rows[y]][x])
    IN  FromChannels(ch[1], ch[2], ch[3], ch[4])

\* The content of memory no one wrote yet.
Uninit == <<>>

\* No ImageBuffer was built yet.
NoImage == <<>>

FreshHeap == [b \in Blocks |-> [x \in Xs |-> Uninit]]
ZeroCount == [b \in Blocks |-> [x \in Xs |-> 0]]
NoWriters == [b \in Blocks |-> [x \in Xs |-> {}]]
NoPool    == [w \in Workers |-> [st |-> "exited", y |-> 0, ptr |-> NULL, x |-> 0]]

AfterNew == IF entry = "from_fn" THEN "from_fn" ELSE "ready"

\* Layout::from_size_align(bytes_per_row, align.unwrap_or(64)) for Rgb<u8>:
\* bytes_per_row = 3 * width.
RowLayout == [size |-> 3 * width, align |-> 64]

\* Image.row_layout before Image::new ran.
NoLayout == [size |-> 0, align |-> 0]

\* Image::new when every alloc succeeds: one block per row.
ImageNew ==
    /\ pc = "start"
    /\ row_layout' = RowLayout
    /\ rows' = [y \in Ys |-> y + 1]
    /\ allocated' = [b \in Blocks |-> RowLayout]
    /\ heap' = FreshHeap
    /\ pc' = AfterNew
    /\ UNCHANGED <<width, height, nproc, entry, freed, queue, worker, nextRow, fsel,
                   passes, wcount, writers, nullWrites, saved>>
    /\ UNCHANGED <<colorVars, fnVars>>

\* Image::new when alloc returns null for some rows: the pointer is pushed
\* unchecked and the Image is returned like any other.
ImageNewAllocFail ==
    /\ pc = "start"
    /\ row_layout' = RowLayout
    /\ \E failed \in (SUBSET Ys) \ {{}} :
          /\ rows' = [y \in Ys |-> IF y \in failed THEN NULL ELSE y + 1]
          /\ allocated' = [b \in {y + 1 : y \in Ys \ failed} |-> RowLayout]
    /\ heap' = FreshHeap
    /\ pc' = AfterNew
    /\ UNCHANGED <<width, height, nproc, entry, freed, queue, worker, nextRow, fsel,
                   passes, wcount, writers, nullWrites, saved>>
    /\ UNCHANGED <<colorVars, fnVars>>

\* Image::new when Layout::from_size_align fails: expect panics.
ImageNewBadLayout ==
    /\ pc = "start"
    /\ pc' = "panic_layout"
    /\ UNCHANGED <<width, height, nproc, entry, row_layout, allocated, rows, heap, freed, queue, worker,
                   nextRow, fsel, passes, wcount, writers, nullWrites, saved>>
    /\ UNCHANGED <<colorVars, fnVars>>

\* render: Pool::new(nproc), then the closure of pool.scoped starts.
RenderBegin ==
    /\ pc \in {"ready", "from_fn", "rendered"}
    /\ passes < MaxPasses
    /\ \E sel \in FSels : fsel' = sel
    /\ passes' = passes + 1
    /\ worker' = [w \in Workers |-> [st |-> "idle", y |-> 0, ptr |-> NULL, x |-> 0]]
    /\ queue' = <<>>
    /\ nextRow' = 0
    /\ wcount' = ZeroCount
    /\ writers' = NoWriters
    /\ pc' = "dispatch"
    /\ UNCHANGED <<width, height, nproc, entry, row_layout, allocated, rows, heap, freed, nullWrites, saved>>
    /\ UNCHANGED <<colorVars, fnVars>>

TaskRowFirst(y) == rows[0]
\* The row pointer the task of row y captures: self.rows.iter().enumerate().
TaskRow(y) == rows[y]

\* One iteration of the dispatch loop: scoped.execute(task of row nextRow).
Dispatch ==
    /\ pc = "dispatch"
    /\ nextRow < height
    /\ queue' = Append(queue, [kind |-> "job", y |-> nextRow, ptr |-> TaskRow(nextRow)])
    /\ nextRow' = nextRow + 1
    /\ UNCHANGED <<width, height, nproc, entry, row_layout, allocated, pc, rows, heap, freed, worker, fsel,
                   passes, wcount, writers, nullWrites, saved>>
    /\ UNCHANGED <<colorVars, fnVars>>

\* The closure ends; the Scope is dropped: join_all sends one Join per thread.
JoinSend ==
    /\ pc = "dispatch"
    /\ nextRow = height
    /\ queue' = queue \o [i \in 1 .. nproc |-> [kind |-> "join", y |-> 0, ptr |-> NULL]]
    /\ pc' = "join"
    /\ UNCHANGED <<width, height, nproc, entry, row_layout, allocated, rows, heap, freed, worker, nextRow,
                   fsel, passes, wcount, writers, nullWrites, saved>>
    /\ UNCHANGED <<colorVars, fnVars>>

\* A pool thread takes the next message of the channel.
WorkerRecv(w) ==
    /\ pc \in {"dispatch", "join"}
    /\ worker[w].st = "idle"
    /\ queue # <<>>
    /\ LET m == Head(queue)
       IN  worker' = [worker EXCEPT ![w] =
                        IF m.kind = "job"
                        THEN [st |-> "run", y |-> m.y, ptr |-> m.ptr, x |-> 0]
                        ELSE [st |-> "synced", y |-> 0, ptr |-> NULL, x |-> 0]]
    /\ queue' = Tail(queue)
    /\ UNCHANGED <<width, height, nproc, entry, row_layout, allocated, pc, rows, heap, freed, nextRow, fsel,
                   passes, wcount, writers, nullWrites, saved>>
    /\ UNCHANGED <<colorVars, fnVars>>

\* The offset of the write: row.0.offset(x as isize).
WriteOffset(x) == x

\* One iteration of the task's loop: *row.0.offset(x) = f(x, y).
WorkerWrite(w) ==
    /\ pc \in {"dispatch", "join"}
    /\ worker[w].st = "run"
    /\ worker[w].x < width
    /\ worker[w].ptr # NULL
    /\ LET t == worker[w]
           o == WriteOffset(t.x)
       IN  /\ heap' = [heap EXCEPT ![t.ptr][o] = PixelFn(fsel, t.x, t.y)]
           /\ wcount' = [wcount EXCEPT ![t.ptr][o] = @ + 1]
           /\ writers' = [writers EXCEPT ![t.ptr][o] = @ \cup {t.y}]
    /\ worker' = [worker EXCEPT ![w].x = @ + 1]
    /\ UNCHANGED <<width, height, nproc, entry, row_layout, allocated, pc, rows, freed, queue, nextRow, fsel,
                   passes, nullWrites, saved>>
    /\ UNCHANGED <<colorVars, fnVars>>

\* The same write through a NULL row pointer is undefined behaviour: the
\* process dies on the fault, or the store lands outside every row buffer.
WorkerWriteNull(w) ==
    /\ pc \in {"dispatch", "join"}
    /\ worker[w].st = "run"
    /\ worker[w].x < width
    /\ worker[w].ptr = NULL
    /\ nullWrites' = nullWrites \cup {worker[w].y}
    /\ \/ /\ pc' = "crashed"
          /\ UNCHANGED worker
       \/ /\ worker' = [worker EXCEPT ![w].x = @ + 1]
          /\ UNCHANGED pc
    /\ UNCHANGED <<width, height, nproc, entry, row_layout, allocated, rows, heap, freed, queue, nextRow,
                   fsel, passes, wcount, writers, saved>>
    /\ UNCHANGED <<colorVars, fnVars>>

\* The task's loop ends and the job returns: the thread waits for a message.
WorkerFinish(w) ==
    /\ pc \in {"dispatch", "join"}
    /\ worker[w].st = "run"
    /\ worker[w].x = width
    /\ worker' = [worker EXCEPT ![w] = [st |-> "idle", y |-> 0, ptr |-> NULL, x |-> 0]]
    /\ UNCHANGED <<width, height, nproc, entry, row_layout, allocated, pc, rows, heap, freed, queue, nextRow,
                   fsel, passes, wcount, writers, nullWrites, saved>>
    /\ UNCHANGED <<colorVars, fnVars>>

JoinAllDoneAny == \E w \in Workers : worker[w].st = "synced"
\* join_all's wait: every thread has answered its Join message.
JoinAllDone == \A w \in Workers : worker[w].st = "synced"

\* join_all returns, scoped returns, the Pool is dropped, render returns.
JoinReturn ==
    /\ pc = "join"
    /\ JoinAllDone
    /\ worker' = [w \in Workers |->
                    IF worker[w].st = "synced"
                    THEN [worker[w] EXCEPT !.st = "exited"]
                    ELSE worker[w]]
    /\ pc' = "rendered"
    /\ UNCHANGED <<width, height, nproc, entry, row_layout, allocated, rows, heap, freed, queue, nextRow,
                   fsel, passes, wcount, writers, nullWrites, saved>>
    /\ UNCHANGED <<colorVars, fnVars>>

\* Image::save on an image whose rows are all allocated: ImageBuffer::from_fn
\* over the row pointers.  Reading a pixel no render wrote reads
\* uninitialised memory: any value.
Save ==
    /\ pc \in {"ready", "rendered"}
    /\ \A y \in Ys : rows[y] # NULL
    /\ \E g \in Garbage :
          saved' = [y \in Ys |-> [x \in Xs |->
                      IF heap[rows[y]][x] = Uninit THEN g ELSE ReadBack(x, y)]]
    /\ UNCHANGED <<width, height, nproc, entry, row_layout, allocated, pc, rows, heap, freed, queue, worker,
                   nextRow, fsel, passes, wcount, writers, nullWrites>>
    /\ UNCHANGED <<colorVars, fnVars>>

\* Image::save on an image with a NULL row: the read through the null pointer
\* is undefined behaviour: the process dies, or the read yields any value.
SaveNull ==
    /\ pc \in {"ready", "rendered"}
    /\ \E y \in Ys : rows[y] = NULL
    /\ \/ /\ pc' = "crashed"
          /\ UNCHANGED saved
       \/ /\ \E g \in Garbage :
                saved' = [y \in Ys |-> [x \in Xs |->
                            IF rows[y] = NULL THEN g
                            ELSE IF heap[rows[y]][x] = Uninit THEN g
                            ELSE ReadBack(x, y)]]
          /\ UNCHANGED pc
    /\ UNCHANGED <<width, height, nproc, entry, row_layout, allocated, rows, heap, freed, queue, worker,
                   nextRow, fsel, passes, wcount, writers, nullWrites>>
    /\ UNCHANGED <<colorVars, fnVars>>

\* The dealloc calls of drop: dealloc(r.0, self.row_layout) for every row,
\* in order.
DeallocCalls == [i \in 1 .. height |-> [ptr |-> rows[i - 1], layout |-> row_layout]]

\* Drop for Image when every row is allocated.
Drop ==
    /\ pc \in {"ready", "rendered"}
    /\ \A y \in Ys : rows[y] # NULL
    /\ freed' = freed \o DeallocCalls
    /\ pc' = "dropped"
    /\ UNCHANGED <<width, height, nproc, entry, row_layout, allocated, rows, heap, queue, worker, nextRow,
                   fsel, passes, wcount, writers, nullWrites, saved>>
    /\ UNCHANGED <<colorVars, fnVars>>

\* Drop for Image with a NULL row: dealloc of a pointer no alloc returned is
\* undefined behaviour: the process dies, or the call does nothing.
DropNull ==
    /\ pc \in {"ready", "rendered"}
    /\ \E y \in Ys : rows[y] = NULL
    /\ freed' = freed \o DeallocCalls
    /\ \/ pc' = "crashed"
       \/ pc' = "dropped"
    /\ UNCHANGED <<width, height, nproc, entry, row_layout, allocated, rows, heap, queue, worker, nextRow,
                   fsel, passes, wcount, writers, nullWrites, saved>>
    /\ UNCHANGED <<colorVars, fnVars>>

(***************************************************************************)
(* color: src/src/main.rs.  Colours are exact rationals num/den.           *)
(***************************************************************************)
MaxDepth == 3       \* maxdepth ranges over 0..MaxDepth

RECURSIVE Gcd(_, _)
Gcd(a, b) == IF b = 0 THEN a ELSE Gcd(b, a % b)

Abs(n) == IF n < 0 THEN 0 - n ELSE n

\* A rational vector num/den (den > 0) in lowest terms.
Reduce(v) ==
    LET g == Gcd(Gcd(Gcd(v.den, Abs(v.num[1])), Abs(v.num[2])), Abs(v.num[3]))
    IN  [num |-> <<v.num[1] \div g, v.num[2] \div g, v.num[3] \div g>>,
         den |-> v.den \div g]

\* color_to_vector3: every channel divided by 255.
ColorToVector3(rgb) == Reduce([num |-> rgb, den |-> 255])

\* Vector3::component_mul.
ComponentMul(a, b) ==
    [num |-> <<a.num[1] * b.num[1], a.num[2] * b.num[2], a.num[3] * b.num[3]>>,
     den |-> a.den * b.den]

\* Vector3::new(0.0, 0.0, 0.0)
Black == [num |-> <<0, 0, 0>>, den |-> 1]

IsBlack(c) == c.num = <<0, 0, 0>>

\* Unit ray directions the estimator is run on.
Dirs == {<<0, 1, 0>>, <<0, -1, 0>>, <<1, 0, 0>>}

\* The sky gradient of a ray of unit direction d:
\* t = 0.5 * (d.y + 1); (1 - t) * (1, 1, 1) + t * (0.5, 0.7, 1.0).
Sky(d) ==
    LET t2 == d[2] + 1
    IN  [num |-> <<(2 - t2) * 10 + t2 * 5, (2 - t2) * 10 + t2 * 7,
                   (2 - t2) * 10 + t2 * 10>>,
         den |-> 20]

\* Materials of the scene of main.
Materials ==
    { [kind |-> "Lambertian", albedo |-> <<204, 204, 0>>],
      [kind |-> "Metal", albedo |-> <<204, 153, 51>>],
      [kind |-> "Dialectric", albedo |-> <<255, 255, 255>>] }

\* What Material::scatter of m can return: nothing (Metal only), or a ray
\* and the attenuation.
ScatterOutcomes(m) ==
    { [some |-> TRUE, att |-> ColorToVector3(m.albedo), dir |-> d] : d \in Dirs }
    \cup (IF m.kind = "Metal"
          THEN {[some |-> FALSE, att |-> Black, dir |-> <<0, 0, 0>>]}
          ELSE {})

DepthExhaustedOffByOne(depth) == depth > maxdepth
\* if depth >= maxdepth
DepthExhausted(depth) == depth >= maxdepth

NextDepthSame(depth) == depth
\* The depth argument of the recursive call.
NextDepth(depth) == depth + 1

\* No call has returned yet.
NoReturn == [valid |-> FALSE, value |-> Black, hit |-> FALSE, absorbed |-> FALSE,
             sky |-> FALSE, depth |-> 0, scat |-> 0, dir |-> <<0, 0, 0>>]

Frame(d, depth) == [dir |-> d, depth |-> depth, att |-> Black, calls |-> 0, scat |-> 0]

Top == cstack[Len(cstack)]

\* The top call returns value v: its frame is popped.
Return(v, hit, absorbed, sky) ==
    /\ cret' = [valid |-> TRUE, value |-> v, hit |-> hit, absorbed |-> absorbed, sky |-> sky,
                depth |-> Top.depth, scat |-> Top.scat, dir |-> Top.dir]
    /\ cstack' = SubSeq(cstack, 1, Len(cstack) - 1)
    /\ cpc' = IF Len(cstack) = 1 THEN "done" ELSE "ret"

\* scene.hit returns None: the sky gradient.
ColorMiss ==
    /\ cpc = "call"
    /\ Return(Sky(Top.dir), FALSE, FALSE, TRUE)
    /\ UNCHANGED <<maxdepth, ncalls, nscatter>>
    /\ UNCHANGED <<imageVars, fnVars>>

\* scene.hit returns a hit and depth >= maxdepth: black.
ColorDepth ==
    /\ cpc = "call"
    /\ DepthExhausted(Top.depth)
    /\ Return(Black, TRUE, FALSE, FALSE)
    /\ UNCHANGED <<maxdepth, ncalls, nscatter>>
    /\ UNCHANGED <<imageVars, fnVars>>

\* scene.hit returns a hit, scatter returns None: control leaves both
\* `if let` and reaches the sky gradient.
ColorAbsorbed ==
    /\ cpc = "call"
    /\ ~DepthExhausted(Top.depth)
    /\ \E m \in Materials : \E o \in ScatterOutcomes(m) :
          /\ ~o.some
          /\ cret' = [valid |-> TRUE, value |-> Sky(Top.dir), hit |-> TRUE, absorbed |-> TRUE,
                      sky |-> TRUE, depth |-> Top.depth, scat |-> Top.scat + 1,
                      dir |-> Top.dir]
    /\ cstack' = SubSeq(cstack, 1, Len(cstack) - 1)
    /\ cpc' = IF Len(cstack) = 1 THEN "done" ELSE "ret"
    /\ nscatter' = nscatter + 1
    /\ UNCHANGED <<maxdepth, ncalls>>
    /\ UNCHANGED <<imageVars, fnVars>>

\* scene.hit returns a hit, scatter returns a ray: the recursive call.
ColorScatter ==
    /\ cpc = "call"
    /\ ~DepthExhausted(Top.depth)
    /\ \E m \in Materials : \E o \in ScatterOutcomes(m) :
          /\ o.some
          /\ cstack' = Append(
                [cstack EXCEPT ![Len(cstack)] =
                    [@ EXCEPT !.att = o.att, !.calls = @ + 1, !.scat = @ + 1]],
                Frame(o.dir, NextDepth(Top.depth)))
    /\ nscatter' = nscatter + 1
    /\ ncalls' = ncalls + 1
    /\ UNCHANGED <<maxdepth, cpc, cret>>
    /\ UNCHANGED <<imageVars, fnVars>>

\* The recursive call returned: attenuation (*) its value is returned.
ColorReturn ==
    /\ cpc = "ret"
    /\ Return(Reduce(ComponentMul(Top.att, cret.value)), TRUE, FALSE, FALSE)
    /\ UNCHANGED <<maxdepth, ncalls, nscatter>>
    /\ UNCHANGED <<imageVars, fnVars>>

(***************************************************************************)
(* Sphere::hit and Scene::hit: src/src/shapes.rs and src/src/main.rs.      *)
(* Points and vectors are integer triples; rays have axis-aligned unit     *)
(* directions, so a = 1 and the roots are integers whenever the            *)
(* discriminant is a perfect square.                                       *)
(***************************************************************************)
MaxScene == 2       \* scenes of 0..MaxScene shapes

Dot(a, b) == a[1] * b[1] + a[2] * b[2] + a[3] * b[3]
VecAdd(a, b) == <<a[1] + b[1], a[2] + b[2], a[3] + b[3]>>
VecSub(a, b) == <<a[1] - b[1], a[2] - b[2], a[3] - b[3]>>
VecScale(k, a) == <<k * a[1], k * a[2], k * a[3]>>

\* f32::sqrt on the perfect squares.
ISqrt(n) == CHOOSE r \in 0 .. n : r * r <= n /\ (r + 1) * (r + 1) > n
IsSquare(n) == n >= 0 /\ ISqrt(n) * ISqrt(n) = n

\* The quadratic of Sphere::hit.
QuadA(ray) == Dot(ray.direction, ray.direction)
QuadB(sphere, ray) == 2 * Dot(VecSub(ray.origin, sphere.center), ray.direction)
QuadC(sphere, ray) ==
    LET oc == VecSub(ray.origin, sphere.center)
    IN  Dot(oc, oc) - sphere.radius * sphere.radius
Discriminant(sphere, ray) ==
    QuadB(sphere, ray) * QuadB(sphere, ray) - 4 * QuadA(ray) * QuadC(sphere, ray)

\* t1 = (-b - sqrt(discriminant)) / (2a); only read when discriminant > 0.
RootMinus(sphere, ray) ==
    (0 - QuadB(sphere, ray) - ISqrt(Discriminant(sphere, ray))) \div (2 * QuadA(ray))
\* t2 = (-b + sqrt(discriminant)) / (2a); only read when discriminant > 0.
RootPlus(sphere, ray) ==
    (0 - QuadB(sphere, ray) + ISqrt(Discriminant(sphere, ray))) \div (2 * QuadA(ray))

NoHit == [some |-> FALSE, t |-> 0, p |-> <<0, 0, 0>>,
          normal |-> [num |-> <<0, 0, 0>>, den |-> 1], material |-> "none"]

\* Ray::at
RayAt(ray, t) == VecAdd(ray.origin, VecScale(t, ray.direction))

\* The HitResult at parameter t: normal = (p - center) / radius.
HitAt(sphere, ray, t) ==
    LET p == RayAt(ray, t)
    IN  [some |-> TRUE, t |-> t, p |-> p,
         normal |-> [num |-> VecSub(p, sphere.center), den |-> sphere.radius],
         material |-> sphere.material]

SphereHitNoMax(sphere, ray, tmin, tmax) ==
    LET d == Discriminant(sphere, ray)
    IN  IF d > 0 /\ RootMinus(sphere, ray) < RootPlus(sphere, ray)
             /\ RootMinus(sphere, ray) > tmin
        THEN HitAt(sphere, ray, RootMinus(sphere, ray))
        ELSE IF d > 0 /\ RootPlus(sphere, ray) < RootMinus(sphere, ray)
                  /\ RootPlus(sphere, ray) > tmin
        THEN HitAt(sphere, ray, RootPlus(sphere, ray))
        ELSE NoHit

\* Sphere::hit of shapes.rs.
SphereHit(sphere, ray, tmin, tmax) ==
    LET d == Discriminant(sphere, ray)
    IN  IF d > 0 /\ RootMinus(sphere, ray) < RootPlus(sphere, ray)
             /\ RootMinus(sphere, ray) > tmin /\ RootMinus(sphere, ray) < tmax
        THEN HitAt(sphere, ray, RootMinus(sphere, ray))
        ELSE IF d > 0 /\ RootPlus(sphere, ray) < RootMinus(sphere, ray)
                  /\ RootPlus(sphere, ray) > tmin /\ RootPlus(sphere, ray) < tmax
        THEN HitAt(sphere, ray, RootPlus(sphere, ray))
        ELSE NoHit

\* Sphere::hit of main.rs: t = t1.min(t2).
SphereHitMain(sphere, ray, tmin, tmax) ==
    LET d == Discriminant(sphere, ray)
        t == IF RootMinus(sphere, ray) < RootPlus(sphere, ray)
             THEN RootMinus(sphere, ray) ELSE RootPlus(sphere, ray)
    IN  IF d > 0 /\ t > tmin /\ t < tmax
        THEN HitAt(sphere, ray, t)
        ELSE NoHit

MinByPickGreater(x, y) == IF x.t > y.t THEN x ELSE y
\* The fold step of Iterator::min_by with
\* x.t.partial_cmp(&y.t).unwrap_or(Equal): y only when x is Greater.
MinByPick(x, y) == IF x.t > y.t THEN y ELSE x

\* filter_map(|h| h.hit(..)): the hits of the members, in scene order.
RECURSIVE FilterMapHits(_, _, _, _)
FilterMapHits(scene, ray, tmin, tmax) ==
    IF scene = <<>> THEN <<>>
    ELSE LET h == SphereHit(Head(scene), ray, tmin, tmax)
             rest == FilterMapHits(Tail(scene), ray, tmin, tmax)
         IN  IF h.some THEN <<h>> \o rest ELSE rest

\* Iterator::min_by: a left fold with MinByPick, None on the empty sequence.
RECURSIVE MinByFold(_, _)
MinByFold(acc, hits) ==
    IF hits = <<>> THEN acc
    ELSE MinByFold(MinByPick(acc, Head(hits)), Tail(hits))

\* Scene::hit.
SceneHit(scene, ray, tmin, tmax) ==
    LET hits == FilterMapHits(scene, ray, tmin, tmax)
    IN  IF hits = <<>> THEN NoHit ELSE MinByFold(Head(hits), Tail(hits))

\* The inputs the functions are applied to.
Spheres ==
    { [center |-> <<cx, 0, 0>>, radius |-> r, material |-> <<cx, r>>] :
        cx \in {0, 3}, r \in {5, -5} }
Rays ==
    { [origin |-> <<ox, oy, 0>>, direction |-> <<dx, 0, 0>>] :
        ox \in {-8, 0, 10}, oy \in {0, 3, 4, 5, 6}, dx \in {1, -1} }
TMins == {0, 4}
TMaxs == {6, 100}
RECURSIVE SeqsUpTo(_, _)
SeqsUpTo(S, n) ==
    IF n = 0 THEN {<<>>}
    ELSE LET shorter == SeqsUpTo(S, n - 1)
         IN  shorter \cup {Append(q, e) : q \in shorter, e \in S}
Scenes == SeqsUpTo(Spheres, MaxScene)

\* The square root of the discriminant is exact.
ExactRoots(sphere, ray) ==
    Discriminant(sphere, ray) <= 0 \/ IsSquare(Discriminant(sphere, ray))

ApplySphereHit ==
    /\ fn = "none"
    /\ \E sphere \in Spheres : \E ray \in Rays : \E tmin \in TMins : \E tmax \in TMaxs :
          /\ ExactRoots(sphere, ray)
          /\ fn' = "Sphere::hit"
          /\ args' = [sphere |-> sphere, ray |-> ray, tmin |-> tmin, tmax |-> tmax]
          /\ res' = SphereHit(sphere, ray, tmin, tmax)
    /\ UNCHANGED <<imageVars, colorVars>>

ApplySphereHitMain ==
    /\ fn = "none"
    /\ \E sphere \in Spheres : \E ray \in Rays : \E tmin \in TMins : \E tmax \in TMaxs :
          /\ ExactRoots(sphere, ray)
          /\ fn' = "main::Sphere::hit"
          /\ args' = [sphere |-> sphere, ray |-> ray, tmin |-> tmin, tmax |-> tmax]
          /\ res' = SphereHitMain(sphere, ray, tmin, tmax)
    /\ UNCHANGED <<imageVars, colorVars>>

ApplySceneHit ==
    /\ fn = "none"
    /\ \E scene \in Scenes : \E ray \in Rays : \E tmin \in TMins : \E tmax \in TMaxs :
          /\ \A i \in 1 .. Len(scene) : ExactRoots(scene[i], ray)
          /\ fn' = "Scene::hit"
          /\ args' = [scene |-> scene, ray |-> ray, tmin |-> tmin, tmax |-> tmax]
          /\ res' = SceneHit(scene, ray, tmin, tmax)
    /\ UNCHANGED <<imageVars, colorVars>>

(***************************************************************************)
(* Metal::scatter: src/src/materials.rs.  Vectors are exact rationals      *)
(* num/den with den > 0, scalars likewise; a normalised vector is kept as  *)
(* num/sqrt(len2), which is exact for every input.                         *)
(***************************************************************************)
\* Vector3::dot of two rational vectors: a rational scalar.
QDot(a, b) == [num |-> Dot(a.num, b.num), den |-> a.den * b.den]
QPositive(q) == q.num > 0
QAdd(a, b) ==
    Reduce([num |-> VecAdd(VecScale(b.den, a.num), VecScale(a.den, b.num)),
            den |-> a.den * b.den])
QSub(a, b) ==
    Reduce([num |-> VecSub(VecScale(b.den, a.num), VecScale(a.den, b.num)),
            den |-> a.den * b.den])
\* scalar * vector
QScale(q, v) == Reduce([num |-> VecScale(q.num, v.num), den |-> q.den * v.den])

\* Vector3::normalize: v / |v|, kept as num / sqrt(len2).
Normalize(v) == [num |-> v.num, len2 |-> Dot(v.num, v.num)]

\* A normalised vector whose length is rational, as a rational vector.
AsVector(u) == [num |-> u.num, den |-> ISqrt(u.len2)]

\* Ray::new of types.rs: the direction is stored normalised.
RayNew(origin, direction) == [origin |-> origin, direction |-> Normalize(direction)]

\* reflect: v - 2.0 * v.dot(&n) * n
Reflect(v, n) ==
    LET d == QDot(v, n)
    IN  QSub(v, QScale([num |-> 2 * d.num, den |-> d.den], n))

\* The values of random::<f32>() the model draws, in tenths.
RandTenths == {0, 1, 5, 9}

\* random_in_unit_sphere: the candidates 2.0 * (r1, r2, r3) - (1, 1, 1) the
\* loop does not reject (magnitude_squared < 1.0).
RandomInUnitSphere ==
    { Reduce(p) : p \in
        { c \in { [num |-> <<2 * r1 - 10, 2 * r2 - 10, 2 * r3 - 10>>, den |-> 10] :
                    r1 \in RandTenths, r2 \in RandTenths, r3 \in RandTenths } :
            ~(Dot(c.num, c.num) >= 100) } }

NoScatter == [some |-> FALSE, ray |-> RayNew(<<0, 0, 0>>, [num |-> <<0, 0, 0>>, den |-> 1]),
              attenuation |-> <<>>]

\* Metal::scatter; rnd is the value random_in_unit_sphere returns.
MetalScatter(metal, ray, hit, rnd) ==
    LET reflected == Reflect(AsVector(Normalize(AsVector(ray.direction))), hit.normal)
    IN  IF QPositive(QDot(reflected, hit.normal))
        THEN [some |-> TRUE,
              ray |-> RayNew(hit.p, QAdd(reflected, QScale(metal.roughness, rnd))),
              attenuation |-> metal.albedo]
        ELSE NoScatter

\* The inputs Metal::scatter is applied to.
Metals ==
    { [albedo |-> <<[num |-> 4, den |-> 5], [num |-> 3, den |-> 5],
                    [num |-> 1, den |-> 5], [num |-> 1, den |-> 1]>>,
       roughness |-> q] :
        q \in {[num |-> 0, den |-> 1], [num |-> 3, den |-> 10], [num |-> 1, den |-> 1]} }
InDirections ==
    { [num |-> <<3, -4, 0>>, len2 |-> 25], [num |-> <<4, -3, 0>>, len2 |-> 25],
      [num |-> <<0, -1, 0>>, len2 |-> 1], [num |-> <<0, 1, 0>>, len2 |-> 1],
      [num |-> <<1, 0, 0>>, len2 |-> 1] }
Normals == { [num |-> <<0, 1, 0>>, den |-> 1], [num |-> <<-3, 4, 0>>, den |-> 5] }

ApplyMetalScatter ==
    /\ fn = "none"
    /\ \E metal \in Metals : \E d \in InDirections : \E n \in Normals :
       \E rnd \in RandomInUnitSphere :
          LET ray == [origin |-> VecScale(-1, d.num), direction |-> d]
              hit == [t |-> ISqrt(d.len2), p |-> <<0, 0, 0>>, normal |-> n,
                      material |-> metal]
          IN  /\ fn' = "Metal::scatter"
              /\ args' = [metal |-> metal, ray |-> ray, hit |-> hit, rnd |-> rnd]
              /\ res' = MetalScatter(metal, ray, hit, rnd)
    /\ UNCHANGED <<imageVars, colorVars>>

(***************************************************************************)
(* Lambertian::scatter and Dialectric::scatter: src/src/materials.rs.      *)
(* Scalars are exact rationals num/den with den > 0; the inputs are those  *)
(* on which every square root taken is rational.                           *)
(***************************************************************************)
SReduce(q) ==
    LET g == Gcd(q.den, Abs(q.num))
    IN  [num |-> q.num \div g, den |-> q.den \div g]
SOne == [num |-> 1, den |-> 1]
SAdd(a, b) == SReduce([num |-> a.num * b.den + b.num * a.den, den |-> a.den * b.den])
SSub(a, b) == SReduce([num |-> a.num * b.den - b.num * a.den, den |-> a.den * b.den])
SMul(a, b) == SReduce([num |-> a.num * b.num, den |-> a.den * b.den])
SNeg(a) == [num |-> 0 - a.num, den |-> a.den]
\* a / b for b > 0
SDiv(a, b) == SReduce([num |-> a.num * b.den, den |-> a.den * b.num])
\* a >= b
SGeq(a, b) == a.num * b.den >= b.num * a.den
\* f32::sqrt of a rational whose numerator and denominator are squares.
SIsSquare(q) == IsSquare(SReduce(q).num) /\ IsSquare(SReduce(q).den)
SSqrt(q) == [num |-> ISqrt(SReduce(q).num), den |-> ISqrt(SReduce(q).den)]
\* f32::powi(5)
SPowi5(a) == SMul(a, SMul(SMul(a, a), SMul(a, a)))

\* Vector3::magnitude
Magnitude(v) == SSqrt(QDot(v, v))
\* Vector3::neg
QNeg(v) == [num |-> VecScale(-1, v.num), den |-> v.den]

\* The discriminant of refract: 1 - ni_over_nt^2 * (1 - dt^2).
RefractDiscriminant(v, n, ni) ==
    LET uv == AsVector(Normalize(v))
        dt == SReduce(QDot(uv, n))
    IN  SSub(SOne, SMul(SMul(ni, ni), SSub(SOne, SMul(dt, dt))))

NoRefract == [some |-> FALSE, v |-> [num |-> <<0, 0, 0>>, den |-> 1]]

\* refract: Some(ni_over_nt * (uv - n * dt) - n * sqrt(discriminant)) when
\* the discriminant is positive, None otherwise.
Refract(v, n, ni) ==
    LET uv == AsVector(Normalize(v))
        dt == SReduce(QDot(uv, n))
        d == RefractDiscriminant(v, n, ni)
    IN  IF d.num > 0
        THEN [some |-> TRUE,
              v |-> QSub(QScale(ni, QSub(uv, QScale(dt, n))), QScale(SSqrt(d), n))]
        ELSE NoRefract

\* schlick: r0 + (1 - r0) * (1 - cosine)^5 with r0 = ((1 - ior) / (1 + ior))^2.
Schlick(cosine, ior) ==
    LET sqrt_r0 == SDiv(SSub(SOne, ior), SAdd(SOne, ior))
        r0 == SMul(sqrt_r0, sqrt_r0)
    IN  SAdd(r0, SMul(SSub(SOne, r0), SPowi5(SSub(SOne, cosine))))

\* Lambertian::scatter; rnd is the value random_in_unit_sphere returns.
LambertianScatter(lambertian, ray, hit, rnd) ==
    LET coords == [num |-> hit.p, den |-> 1]
        target == QAdd(QAdd(coords, hit.normal), rnd)
    IN  [some |-> TRUE,
         ray |-> RayNew(hit.p, QSub(target, coords)),
         attenuation |-> lambertian.albedo]

\* dot = ray.direction.dot(&hit.normal) / ray.direction.magnitude()
DirectionDotNormal(ray, hit) ==
    LET dir == AsVector(ray.direction)
    IN  SDiv(SReduce(QDot(dir, hit.normal)), Magnitude(dir))

\* The first two members of the tuple Dialectric::scatter chooses by the
\* sign of dot: the outward normal and ni_over_nt.
OutwardNormal(ray, hit) ==
    IF DirectionDotNormal(ray, hit).num > 0 THEN QNeg(hit.normal) ELSE hit.normal
NiOverNt(dialectric, ray, hit) ==
    IF DirectionDotNormal(ray, hit).num > 0
    THEN dialectric.ior
    ELSE SDiv(SOne, dialectric.ior)
\* Its third member: the cosine given to schlick.
Cosine(dialectric, ray, hit) ==
    LET dot == DirectionDotNormal(ray, hit)
    IN  IF dot.num > 0
        THEN SSqrt(SSub(SOne, SMul(SMul(dialectric.ior, dialectric.ior),
                                   SSub(SOne, SMul(dot, dot)))))
        ELSE SNeg(dot)

DialectricFallbackAbsorb(dialectric, hit, reflected) == NoScatter
\* The last expression of Dialectric::scatter: the reflected ray.
DialectricFallback(dialectric, hit, reflected) ==
    [some |-> TRUE,
     ray |-> RayNew(hit.p, reflected),
     attenuation |-> dialectric.albedo]

\* Dialectric::scatter; rnd is the value of random::<f32>().
DialectricScatter(dialectric, ray, hit, rnd) ==
    LET dir == AsVector(ray.direction)
        reflected == Reflect(dir, hit.normal)
        refracted == Refract(dir, OutwardNormal(ray, hit), NiOverNt(dialectric, ray, hit))
    IN  IF refracted.some
           /\ SGeq(rnd, Schlick(Cosine(dialectric, ray, hit), dialectric.ior))
        THEN [some |-> TRUE,
              ray |-> RayNew(hit.p, refracted.v),
              attenuation |-> dialectric.albedo]
        ELSE DialectricFallback(dialectric, hit, reflected)

\* The inputs the two functions are applied to.
Albedos ==
    { <<[num |-> 4, den |-> 5], [num |-> 3, den |-> 5], [num |-> 1, den |-> 5]>>,
      <<[num |-> 1, den |-> 1], [num |-> 1, den |-> 1], [num |-> 1, den |-> 1]>> }
Lambertians == { [albedo |-> a] : a \in Albedos }
Iors == { [num |-> 1, den |-> 1], [num |-> 4, den |-> 3], [num |-> 3, den |-> 2],
          [num |-> 5, den |-> 4] }
Dialectrics == { [albedo |-> a, ior |-> i] : a \in Albedos, i \in Iors }
OutDirections ==
    { [num |-> <<4, 3, 0>>, len2 |-> 25], [num |-> <<3, 4, 0>>, len2 |-> 25] }
HitPoints == { <<0, 0, 0>>, <<1, 2, 0>> }
RandScalars == { [num |-> r, den |-> 10] : r \in RandTenths }

\* Every square root Dialectric::scatter takes on this input is rational.
ExactRefraction(dialectric, ray, hit) ==
    LET d == RefractDiscriminant(AsVector(ray.direction), OutwardNormal(ray, hit),
                                 NiOverNt(dialectric, ray, hit))
    IN  d.num <= 0 \/ SIsSquare(d)

ApplyLambertianScatter ==
    /\ fn = "none"
    /\ \E lambertian \in Lambertians : \E d \in InDirections : \E n \in Normals :
       \E p \in HitPoints : \E rnd \in RandomInUnitSphere :
          LET ray == [origin |-> VecSub(p, d.num), direction |-> d]
              hit == [t |-> ISqrt(d.len2), p |-> p, normal |-> n,
                      material |-> lambertian]
          IN  /\ fn' = "Lambertian::scatter"
              /\ args' = [material |-> lambertian, ray |-> ray, hit |-> hit, rnd |-> rnd]
              /\ res' = LambertianScatter(lambertian, ray, hit, rnd)
    /\ UNCHANGED <<imageVars, colorVars>>

ApplyDialectricScatter ==
    /\ fn = "none"
    /\ \E dialectric \in Dialectrics : \E d \in InDirections \cup OutDirections :
       \E n \in Normals : \E p \in HitPoints : \E rnd \in RandScalars :
          LET ray == [origin |-> VecSub(p, d.num), direction |-> d]
              hit == [t |-> ISqrt(d.len2), p |-> p, normal |-> n,
                      material |-> dialectric]
          IN  /\ ExactRefraction(dialectric, ray, hit)
              /\ fn' = "Dialectric::scatter"
              /\ args' = [material |-> dialectric, ray |-> ray, hit |-> hit, rnd |-> rnd]
              /\ res' = DialectricScatter(dialectric, ray, hit, rnd)
    /\ UNCHANGED <<imageVars, colorVars>>

(***************************************************************************)
(* The rejection samplers: src/src/camera.rs, materials.rs, utils.rs.      *)
(* fn is the sampler running, args the draws of the last iteration (in     *)
(* tenths), res the candidate p and the position in the loop.              *)
(***************************************************************************)
DiskSamplers == {"camera::random_in_unit_disk", "utils::random_in_unit_disk"}
SphereSamplers == {"materials::random_in_unit_sphere", "utils::random_in_unit_sphere"}
Samplers == DiskSamplers \cup SphereSamplers

\* The values of random::<f32>() one iteration draws.
Draws(sampler) ==
    IF sampler \in DiskSamplers
    THEN { <<r1, r2>> : r1 \in RandTenths, r2 \in RandTenths }
    ELSE { <<r1, r2, r3>> : r1 \in RandTenths, r2 \in RandTenths, r3 \in RandTenths }

\* The candidate p of one iteration.
Candidate(sampler, d) ==
    CASE sampler = "camera::random_in_unit_disk" ->
            \* 2.0 * Vector3::new(r1, r2, 0.0) - offset, offset = (1, 1, 0)
            [num |-> VecSub(VecScale(2, <<d[1], d[2], 0>>), <<10, 10, 0>>), den |-> 10]
      [] sampler = "utils::random_in_unit_disk" ->
            \* 2.0 * Vector3::new(r1, r2, 0.0) - Vector3::new(1.0, 1.0, 0.0)
            [num |-> VecSub(VecScale(2, <<d[1], d[2], 0>>), <<10, 10, 0>>), den |-> 10]
      [] sampler = "materials::random_in_unit_sphere" ->
            \* 2.0 * Vector3::new(r1, r2, r3) - offset, offset = (1, 1, 1)
            [num |-> VecSub(VecScale(2, <<d[1], d[2], d[3]>>), <<10, 10, 10>>), den |-> 10]
      [] sampler = "utils::random_in_unit_sphere" ->
            \* 2.0 * Vector3::new(r1, r2, r3)
            [num |-> VecScale(2, <<d[1], d[2], d[3]>>), den |-> 10]

\* The loop condition: p.magnitude_squared() >= 1.0 (p.dot(&p) >= 1.0).
Rejected(p) == Dot(p.num, p.num) >= p.den * p.den

\* The sampler is called: `let mut p`, not yet assigned.
SamplerCall(sampler) ==
    /\ fn = "none"
    /\ fn' = sampler
    /\ args' = <<>>
    /\ res' = [st |-> "enter", p |-> <<>>]
    /\ UNCHANGED <<imageVars, colorVars>>

\* One iteration whose candidate the condition rejects: the loop repeats.
SamplerDrawReject ==
    /\ fn \in Samplers
    /\ res.st \in {"enter", "loop"}
    /\ \E d \in Draws(fn) :
          /\ Rejected(Candidate(fn, d))
          /\ args' = d
          /\ res' = [st |-> "loop", p |-> Candidate(fn, d)]
    /\ UNCHANGED fn
    /\ UNCHANGED <<imageVars, colorVars>>

\* One iteration whose candidate the condition accepts: p is returned.
SamplerDrawAccept ==
    /\ fn \in Samplers
    /\ res.st \in {"enter", "loop"}
    /\ \E d \in Draws(fn) :
          /\ ~Rejected(Candidate(fn, d))
          /\ args' = d
          /\ res' = [st |-> "returned", p |-> Candidate(fn, d)]
    /\ UNCHANGED fn
    /\ UNCHANGED <<imageVars, colorVars>>

ImageIdle ==
    /\ width = 1
    /\ height = 1
    /\ nproc = 1
    /\ entry = "new"
    /\ pc = "idle"
    /\ rows = <<>>
    /\ heap = <<>>
    /\ row_layout = NoLayout
    /\ allocated = <<>>
    /\ freed = <<>>
    /\ queue = <<>>
    /\ worker = <<>>
    /\ nextRow = 0
    /\ fsel = 0
    /\ passes = 0
    /\ wcount = <<>>
    /\ writers = <<>>
    /\ nullWrites = {}
    /\ saved = NoImage

(***************************************************************************)
(* Specifications                                                          *)
(***************************************************************************)
ColorIdle ==
    /\ maxdepth = 0
    /\ cstack = <<>>
    /\ cpc = "idle"
    /\ cret = NoReturn
    /\ ncalls = 0
    /\ nscatter = 0

FnIdle ==
    /\ fn = "none"
    /\ args = "none"
    /\ res = "none"

ImageInit ==
    /\ width \in 1 .. MaxWidth
    /\ height \in 1 .. MaxHeight
    /\ nproc \in 1 .. MaxProc
    /\ entry \in {"new", "from_fn"}
    /\ pc = "start"
    /\ rows = <<>>
    /\ heap = <<>>
    /\ row_layout = NoLayout
    /\ allocated = <<>>
    /\ freed = <<>>
    /\ queue = <<>>
    /\ worker = NoPool
    /\ nextRow = 0
    /\ fsel = 0
    /\ passes = 0
    /\ wcount = ZeroCount
    /\ writers = NoWriters
    /\ nullWrites = {}
    /\ saved = NoImage

Init == ImageInit /\ ColorIdle /\ FnIdle

Next ==
    \/ ImageNew
    \/ RenderBegin
    \/ Dispatch
    \/ JoinSend
    \/ \E w \in Workers : WorkerRecv(w)
    \/ \E w \in Workers : WorkerWrite(w)
    \/ \E w \in Workers : WorkerFinish(w)
    \/ JoinReturn
    \/ Save
    \/ Drop

\* The image under allocations that always succeed.
Spec == Init /\ [][Next]_vars

NextAllocFail ==
    \/ ImageNew
    \/ ImageNewAllocFail
    \/ ImageNewBadLayout
    \/ RenderBegin
    \/ Dispatch
    \/ JoinSend
    \/ \E w \in Workers : WorkerRecv(w)
    \/ \E w \in Workers : WorkerWrite(w)
    \/ \E w \in Workers : WorkerWriteNull(w)
    \/ \E w \in Workers : WorkerFinish(w)
    \/ JoinReturn
    \/ Save
    \/ SaveNull
    \/ Drop
    \/ DropNull

\* The image when alloc may return null and the row layout may be invalid.
SpecAllocFail == Init /\ [][NextAllocFail]_vars

\* color(ray, scene, maxdepth, 0) for every scene and scatter outcome.
ColorInit ==
    /\ maxdepth \in 0 .. MaxDepth
    /\ \E d \in Dirs : cstack = <<Frame(d, 0)>>
    /\ cpc = "call"
    /\ cret = NoReturn
    /\ ncalls = 0
    /\ nscatter = 0

InitColor == ImageIdle /\ ColorInit /\ FnIdle

NextColor ==
    \/ ColorMiss
    \/ ColorDepth
    \/ ColorAbsorbed
    \/ ColorScatter
    \/ ColorReturn

SpecColor == InitColor /\ [][NextColor]_vars

InitFn == ImageIdle /\ ColorIdle /\ FnIdle

NextFn ==
    \/ ApplySphereHit
    \/ ApplySphereHitMain
    \/ ApplySceneHit
    \/ ApplyMetalScatter
    \/ ApplyLambertianScatter
    \/ ApplyDialectricScatter

\* The intersection and scattering functions applied to every input.
SpecFn == InitFn /\ [][NextFn]_vars

NextSampler ==
    \/ \E sampler \in Samplers : SamplerCall(sampler)
    \/ SamplerDrawReject
    \/ SamplerDrawAccept

\* One call of a rejection sampler; an in-range candidate is eventually drawn.
SpecSampler == InitFn /\ [][NextSampler]_vars /\ WF_vars(SamplerDrawAccept)

(***************************************************************************)
(* Claims about the image                                                  *)
(***************************************************************************)
PassRunning == pc \in {"dispatch", "join"}

\* C1: during a render call no pixel is written twice, every write to row y
\* is made by the task scheduled for row y, no row buffer can be read while
\* the pass runs, and when the call has returned every pixel of the
\* width x height image has been written exactly once.
C1_RowExclusiveWrites ==
    /\ pc \in {"dispatch", "join", "rendered"} =>
          \A y \in Ys : \A x \in Xs :
             /\ wcount[rows[y]][x] <= 1
             /\ writers[rows[y]][x] \subseteq {y}
    /\ PassRunning => ~ENABLED Save
    /\ pc = "rendered" =>
          \A y \in Ys : \A x \in Xs :
             /\ wcount[rows[y]][x] = 1
             /\ writers[rows[y]][x] = {y}

\* Two pool threads are inside the tasks of two different rows, each having
\* written part of its row.
C1_Witness ==
    /\ PassRunning
    /\ \E w1 \in Workers : \E w2 \in Workers :
          /\ w1 # w2
          /\ worker[w1].st = "run" /\ worker[w1].x > 0
          /\ worker[w2].st = "run" /\ worker[w2].x > 0
          /\ worker[w1].y # worker[w2].y

\* C2: when render (alone or inside from_fn) has returned, every row is
\* fully written and no row task is pending in the channel or running on a
\* thread.
C2_ReturnAfterAllTasks ==
    pc = "rendered" =>
       /\ \A y \in Ys : \A x \in Xs : wcount[rows[y]][x] = 1
       /\ \A i \in 1 .. Len(queue) : queue[i].kind # "job"
       /\ \A w \in Workers : worker[w].st # "run"

\* from_fn returned an image of several rows rendered by several threads.
C2_Witness ==
    /\ pc = "rendered"
    /\ entry = "from_fn"
    /\ height > 1
    /\ nproc > 1

\* C3: a pixel written in the current render call holds f(x, y) from then
\* on, whatever the other tasks do, and after the call every pixel reads
\* back as f(x, y).
C3_ReadBackIsF ==
    /\ PassRunning =>
          \A y \in Ys : \A x \in Xs :
             wcount[rows[y]][x] > 0 => heap[rows[y]][x] = PixelFn(fsel, x, y)
    /\ pc = "rendered" =>
          \A y \in Ys : \A x \in Xs :
             /\ heap[rows[y]][x] # Uninit
             /\ ReadBack(x, y) = PixelFn(fsel, x, y)

\* A second render call with another pixel function has returned: every
\* pixel was overwritten, rows completed by several threads.
C3_Witness ==
    /\ pc = "rendered"
    /\ passes = 2
    /\ fsel = 0
    /\ width > 1
    /\ height > 1
    /\ nproc > 1

\* C10: Image::new returns an image only when every row was allocated, no
\* task writes through a row pointer whose allocation failed, and no
\* partially allocated image is rendered or saved.
C10_AllocFailureReported ==
    /\ pc \in {"ready", "from_fn", "dispatch", "join", "rendered", "dropped"} =>
          \A y \in Ys : rows[y] # NULL
    /\ nullWrites = {}
    /\ saved # NoImage => \A y \in Ys : rows[y] # NULL

(***************************************************************************)
(* Claims about color                                                      *)
(***************************************************************************)
\* C4: a call of color whose ray hits the scene at depth >= maxdepth returns
\* black without evaluating scatter; with maxdepth = 0 scatter is never
\* evaluated at all and every hit returns black.
C4_DepthExhaustedIsBlack ==
    /\ (cret.valid /\ cret.hit /\ cret.depth >= maxdepth) =>
          (IsBlack(cret.value) /\ cret.scat = 0)
    /\ maxdepth = 0 =>
          /\ nscatter = 0
          /\ (cpc = "done" /\ cret.hit) => IsBlack(cret.value)

\* A nested call at depth maxdepth > 0 hit the scene and returned.
C4_Witness ==
    /\ cret.valid
    /\ cret.hit
    /\ maxdepth > 0
    /\ cret.depth = maxdepth
    /\ nscatter = maxdepth

\* C5: a call whose ray hits with depth < maxdepth and whose material
\* absorbs returns black, and the sky gradient is returned only on a miss.
C5_AbsorbedIsBlack ==
    cret.valid =>
       /\ (cret.hit /\ cret.depth < maxdepth /\ cret.absorbed) => IsBlack(cret.value)
       /\ cret.sky => ~cret.hit

\* C6: the frame at nesting level i has depth i - 1 <= maxdepth, every
\* frame makes at most one recursive call, at most maxdepth recursive calls
\* are made in all, and the evaluation never gets stuck before it is done.
C6_BoundedRecursion ==
    /\ \A i \in 1 .. Len(cstack) :
          /\ cstack[i].depth = i - 1
          /\ cstack[i].depth <= maxdepth
          /\ cstack[i].calls <= 1
    /\ ncalls <= maxdepth
    /\ cpc = "done" \/ ENABLED NextColor

\* The recursion reached its deepest level, maxdepth nested calls.
C6_Witness ==
    /\ maxdepth >= 2
    /\ Len(cstack) = maxdepth + 1
    /\ ncalls = maxdepth

(***************************************************************************)
(* Claims about Sphere::hit and Scene::hit                                 *)
(***************************************************************************)
\* The roots of the quadratic strictly inside (tmin, tmax).
RootsInRange(sphere, ray, tmin, tmax) ==
    { t \in {RootMinus(sphere, ray), RootPlus(sphere, ray)} : t > tmin /\ t < tmax }

\* C7: with a positive discriminant Sphere::hit returns the smallest root
\* strictly inside (tmin, tmax): the larger root when the smaller one is out
\* of range, and no hit only when neither root is in range.
C7_SmallestRootInRange ==
    (fn \in {"Sphere::hit", "main::Sphere::hit"}
       /\ Discriminant(args.sphere, args.ray) > 0) =>
       LET in == RootsInRange(args.sphere, args.ray, args.tmin, args.tmax)
       IN  IF in = {} THEN ~res.some
           ELSE res.some /\ res.t \in in /\ \A t \in in : res.t <= t

\* The hits the members of the scene report, by position.
MemberHits ==
    { SphereHit(args.scene[i], args.ray, args.tmin, args.tmax) :
        i \in 1 .. Len(args.scene) }

Permuted(scene, perm) == [i \in 1 .. Len(scene) |-> scene[perm[i]]]

\* C8: Scene::hit returns nothing exactly when no member reports a hit, and
\* otherwise a member's hit of minimal t; reordering the scene leaves that t
\* unchanged.
C8_SceneHitIsNearest ==
    fn = "Scene::hit" =>
       LET hits == { h \in MemberHits : h.some }
       IN  /\ res.some <=> hits # {}
           /\ res.some => (res \in hits /\ \A h \in hits : res.t <= h.t)
           /\ \A perm \in Permutations(1 .. Len(args.scene)) :
                 LET other == SceneHit(Permuted(args.scene, perm),
                                       args.ray, args.tmin, args.tmax)
                 IN  other.some = res.some /\ other.t = res.t

\* A scene whose second member is hit nearer than its first.
C8_Witness ==
    /\ fn = "Scene::hit"
    /\ Len(args.scene) = 2
    /\ res.some
    /\ LET h1 == SphereHit(args.scene[1], args.ray, args.tmin, args.tmax)
           h2 == SphereHit(args.scene[2], args.ray, args.tmin, args.tmax)
       IN  h1.some /\ h2.some /\ h2.t < h1.t /\ res = h2

(***************************************************************************)
(* Claims about Metal::scatter                                             *)
(***************************************************************************)
\* The perturbed reflection: reflect(direction, normal) + roughness * rnd.
Perturbed ==
    QAdd(Reflect(AsVector(args.ray.direction), args.hit.normal),
         QScale(args.metal.roughness, args.rnd))

\* C9: Metal::scatter returns nothing whenever the perturbed reflection has
\* a dot product <= 0 with the normal; a returned ray's direction has a
\* positive dot product with the normal, and its attenuation is the albedo.
C9_MetalAbsorbsBelowSurface ==
    fn = "Metal::scatter" =>
       /\ ~QPositive(QDot(Perturbed, args.hit.normal)) => ~res.some
       /\ res.some =>
             /\ Dot(res.ray.direction.num, args.hit.normal.num) > 0
             /\ res.attenuation = args.metal.albedo

(***************************************************************************)
(* C11.  Over any sequence of new, render, from_fn and save, the Image     *)
(* keeps the width, height and rows it was allocated with, its pixels are  *)
(* filled by exactly one complete render pass (never a second one), and    *)
(* every save reads only pixels that a completed render pass has written.  *)
(***************************************************************************)
C11_FilledOnceThenSaved ==
    [][/\ width' = width
       /\ height' = height
       /\ pc # "start" => rows' = rows
       /\ passes' <= 1
       /\ saved' # saved =>
             /\ pc = "rendered"
             /\ \A y \in Ys : \A x \in Xs : heap[rows[y]][x] # Uninit]_vars

(***************************************************************************)
(* C12.  Sphere::hit returns no intersection whenever the discriminant     *)
(* b*b - 4*a*c is <= 0, and every hit it returns has t strictly inside     *)
(* (t_min, t_max) and equal to one of the two roots of the quadratic       *)
(* a*t*t + b*t + c = 0, for positive and negative radius alike.            *)
(***************************************************************************)
C12_SphereHitRoots ==
    fn = "Sphere::hit" =>
       LET sphere == args.sphere
           ray == args.ray
       IN  /\ Discriminant(sphere, ray) <= 0 => ~res.some
           /\ res.some =>
                 /\ res.t > args.tmin
                 /\ res.t < args.tmax
                 /\ res.t \in {RootMinus(sphere, ray), RootPlus(sphere, ray)}
                 /\ QuadA(ray) * res.t * res.t + QuadB(sphere, ray) * res.t
                       + QuadC(sphere, ray) = 0

\* A sphere of negative radius is hit at a root inside the range.
C12_Witness ==
    /\ fn = "Sphere::hit"
    /\ res.some
    /\ args.sphere.radius < 0
    /\ Discriminant(args.sphere, args.ray) > 0

(***************************************************************************)
(* C13.  Lambertian::scatter and Dialectric::scatter never absorb: for     *)
(* every incoming ray, hit and random draw they return a scattered ray     *)
(* from the hit point whose attenuation is the material's albedo, and      *)
(* Dialectric::scatter returns the reflected ray whenever the refraction   *)
(* discriminant is not positive, whatever the random draw.                 *)
(***************************************************************************)
C13_ScatterNeverAbsorbs ==
    /\ fn = "Lambertian::scatter" =>
          /\ res.some
          /\ res.attenuation = args.material.albedo
          /\ res.ray.origin = args.hit.p
    /\ fn = "Dialectric::scatter" =>
          /\ res.some
          /\ res.attenuation = args.material.albedo
          /\ res.ray.origin = args.hit.p
          /\ RefractDiscriminant(AsVector(args.ray.direction),
                                 OutwardNormal(args.ray, args.hit),
                                 NiOverNt(args.material, args.ray, args.hit)).num <= 0
                => res.ray = RayNew(args.hit.p,
                                    Reflect(AsVector(args.ray.direction), args.hit.normal))

\* Total internal reflection with a random draw above every reflectance.
C13_Witness ==
    /\ fn = "Dialectric::scatter"
    /\ RefractDiscriminant(AsVector(args.ray.direction),
                           OutwardNormal(args.ray, args.hit),
                           NiOverNt(args.material, args.ray, args.hit)).num < 0
    /\ args.rnd.num = 9
    /\ res.some

(***************************************************************************)
(* C14.  random_in_unit_disk and random_in_unit_sphere draw each candidate *)
(* from the full square [-1,1]^2 (cube [-1,1]^3): p = 2 * draw - 1 in      *)
(* every sampled component; they repeat while the candidate's squared      *)
(* length is >= 1 and return only points of squared length < 1, with       *)
(* z = 0 for the disk.                                                     *)
(***************************************************************************)
C14_SamplersDrawFullCube ==
    (fn \in Samplers /\ res.st # "enter") =>
       /\ \A i \in 1 .. Len(args) : res.p.num[i] = 2 * args[i] - 10
       /\ res.p.den = 10
       /\ res.st = "loop" => Dot(res.p.num, res.p.num) >= 100
       /\ res.st = "returned" => Dot(res.p.num, res.p.num) < 100
       /\ fn \in DiskSamplers => res.p.num[3] = 0

(***************************************************************************)
(* C15.  Image::new allocates exactly height row buffers, all with the one *)
(* row layout; every allocated row is passed to dealloc exactly once, with *)
(* the layout it was allocated with, only at drop and never while a render *)
(* task is running; nothing else is passed to dealloc, no row is freed     *)
(* twice and after drop none is left allocated.                            *)
(***************************************************************************)
C15_RowsFreedOnceAtDrop ==
    /\ pc \notin {"start", "panic_layout"} =>
          /\ DOMAIN rows = Ys
          /\ \A y \in Ys : rows[y] \in DOMAIN allocated
          /\ \A y1 \in Ys : \A y2 \in Ys : y1 # y2 => rows[y1] # rows[y2]
          /\ Cardinality(DOMAIN allocated) = height
          /\ \A b \in DOMAIN allocated : allocated[b] = row_layout
    /\ freed # <<>> =>
          /\ pc = "dropped"
          /\ \A w \in Workers : worker[w].st # "run"
    /\ \A i \in 1 .. Len(freed) :
          /\ freed[i].ptr \in DOMAIN allocated
          /\ freed[i].layout = allocated[freed[i].ptr]
          /\ \A j \in 1 .. Len(freed) : i # j => freed[i].ptr # freed[j].ptr
    /\ pc = "dropped" =>
          \A b \in DOMAIN allocated : \E i \in 1 .. Len(freed) : freed[i].ptr = b

====
